---- MODULE Spec2Model ----
(***************************************************************************)
(* Model of docs/examples/check_language_support.py: the command-line     *)
(* entry point main() and the coroutine check_movie_languages(title,      *)
(* year), which awaits one search and one downloadable-detail fetch of    *)
(* the moviebox_api client and prints a report.                           *)
(*                                                                         *)
(* The console is the sequence `out` of printed lines, one entry per      *)
(* print statement that a property distinguishes.  The two awaited client *)
(* calls are the environment: each returns a value drawn from a bounded   *)
(* set, or raises an Exception.                                           *)
(***************************************************************************)
EXTENDS Integers, Sequences, FiniteSets

\* ------------------------------------------------------------------ bounds
MaxYearLen == 2      \* characters of the year argument
MaxItems == 2        \* items of a search result
MaxDownloads == 1    \* video variants of a detail result
MaxCaptions == 2     \* caption files of a detail result

\* ---------------------------------------------------------- input domains
ProgName == "check_language_support.py"
Titles == {"Avatar"}
\* characters the year argument is made of: digits, a sign, a non-digit
Digits == {"0", "1"}
YearChars == Digits \cup {"-", "x"}
\* releaseDate is a date: its year is at least 1
ReleaseYears == {1, 10}
Resolutions == {1080}
\* caption.lan values: strings as sequences of characters
LanCodes ==
    { <<"f", "r">>, <<"F", "R">>, <<"F", "r", "e">>, <<"f", "r", "a">>,
      <<"e", "n">> }

SeqsUpTo(S, n) == UNION { [1..k -> S] : k \in 0..n }

YearArgs == SeqsUpTo(YearChars, MaxYearLen)
Argvs ==
    {<<ProgName>>}
        \cup { <<ProgName, t>> : t \in Titles }
        \cup { <<ProgName, t, y>> : t \in Titles, y \in YearArgs }
ResultLists == SeqsUpTo(ReleaseYears, MaxItems)
DetailResults ==
    [ downloads : SeqsUpTo(Resolutions, MaxDownloads),
      captions : SeqsUpTo(LanCodes, MaxCaptions) ]

\* ------------------------------------------------------------ pure helpers
FRENCH_LANGUAGE_CODES == { <<"f", "r">>, <<"f", "r", "e">>, <<"f", "r", "a">> }

\* str.lower() on the characters of the model
LowerChar(c) ==
    CASE c = "F" -> "f"
      [] c = "R" -> "r"
      [] c = "E" -> "e"
      [] c = "A" -> "a"
      [] c = "N" -> "n"
      [] OTHER -> c

Lower(s) == [ i \in DOMAIN s |-> LowerChar(s[i]) ]

IsFrenchCaseSensitive(lan) == lan \in FRENCH_LANGUAGE_CODES

\* caption.lan.lower() in FRENCH_LANGUAGE_CODES
IsFrench(lan) == Lower(lan) \in FRENCH_LANGUAGE_CODES

DigitValue(c) == IF c = "1" THEN 1 ELSE 0

RECURSIVE DigitsValue(_)
DigitsValue(s) ==
    IF s = <<>> THEN 0
    ELSE 10 * DigitsValue(SubSeq(s, 1, Len(s) - 1)) + DigitValue(s[Len(s)])

AllDigits(s) == s # <<>> /\ \A i \in DOMAIN s : s[i] \in Digits

\* int(sys.argv[2]): an optional sign, then one or more digits; anything
\* else raises ValueError
ParseInt(s) ==
    IF AllDigits(s) THEN [ok |-> TRUE, val |-> DigitsValue(s)]
    ELSE IF s # <<>> /\ s[1] = "-" /\ AllDigits(Tail(s))
         THEN [ok |-> TRUE, val |-> 0 - DigitsValue(Tail(s))]
         ELSE [ok |-> FALSE, val |-> 0]

\* the parameter year: None or an int
NoneYear == [isNone |-> TRUE, val |-> 0]
IntYear(n) == [isNone |-> FALSE, val |-> n]
\* `if year:` is false for None and for 0
Truthy(y) == ~y.isNone /\ y.val # 0

\* one printed line: its kind, an index (item or list position) and a flag
Line(k) == [k |-> k, i |-> 0, f |-> FALSE]
LineI(k, i, f) == [k |-> k, i |-> i, f |-> f]

\* results.first_item
first_item(items) == 1

\* lines 63-66: index of the first item whose release year is `y`, 0 for None
RECURSIVE YearScan(_, _, _)
YearScan(items, y, i) ==
    IF i > Len(items) THEN 0
    ELSE IF items[i] = y THEN i
    ELSE YearScan(items, y, i + 1)

SelectTargetFirstOnly(items, year) ==
    [target |-> first_item(items), warned |-> FALSE]

\* lines 61-71: the selected item and whether the warning is printed
SelectTarget(items, year) ==
    IF Truthy(year)
    THEN LET found == YearScan(items, year.val, 1)
         IN IF found = 0
            THEN [target |-> first_item(items), warned |-> TRUE]
            ELSE [target |-> found, warned |-> FALSE]
    ELSE [target |-> first_item(items), warned |-> FALSE]

\* lines 39-43 and 50
HeaderLines(year) ==
    <<Line("banner")>>
        \o (IF Truthy(year) THEN <<Line("yearfilter")>> ELSE <<>>)
        \o <<Line("searching")>>

VideoSectionNoElse(downloads) ==
    <<Line("videoheader")>>
        \o (IF downloads # <<>>
            THEN <<LineI("qualitycount", Len(downloads), FALSE)>>
            ELSE <<>>)
        \o [ i \in 1..Len(downloads) |-> LineI("variant", i, FALSE) ]

\* lines 86-99
VideoSection(downloads) ==
    <<Line("videoheader")>>
        \o (IF downloads # <<>>
            THEN <<LineI("qualitycount", Len(downloads), FALSE)>>
                     \o [ i \in 1..Len(downloads) |-> LineI("variant", i, FALSE) ]
            ELSE <<Line("novideo")>>)

CaptionStepLast(st, lan, i) ==
    [ french_found |-> IsFrench(lan),
      out |-> Append(st.out, LineI("caption", i, IsFrench(lan))) ]

\* lines 110-121: one iteration of the caption loop
CaptionStep(st, lan, i) ==
    LET is_french == IsFrench(lan)
    IN [ french_found |-> IF is_french THEN TRUE ELSE st.french_found,
         out |-> Append(st.out, LineI("caption", i, is_french)) ]

\* lines 108-121
RECURSIVE CaptionLoop(_, _, _)
CaptionLoop(captions, i, st) ==
    IF i > Len(captions) THEN st
    ELSE CaptionLoop(captions, i + 1, CaptionStep(st, captions[i], i))

SubtitleSectionVerdictAlways(captions) ==
    LET st == CaptionLoop(captions, 1, [french_found |-> FALSE, out |-> <<>>])
    IN <<Line("subheader")>>
           \o (IF captions # <<>> THEN <<>> ELSE <<Line("nosubs")>>)
           \o st.out
           \o <<IF st.french_found THEN Line("french_yes") ELSE Line("french_no")>>

\* lines 101-128
SubtitleSection(captions) ==
    <<Line("subheader")>>
        \o (IF captions # <<>>
            THEN LET st == CaptionLoop(captions, 1,
                               [french_found |-> FALSE, out |-> <<>>])
                 IN <<LineI("subcount", Len(captions), FALSE)>>
                        \o st.out
                        \o <<IF st.french_found
                             THEN Line("french_yes")
                             ELSE Line("french_no")>>
            ELSE <<Line("nosubs")>>)

\* lines 130-148
AudioSection == <<Line("audio")>>

\* line 154
has_french_subs(captions) == \E i \in DOMAIN captions : IsFrench(captions[i])

\* lines 150-157
SummarySection(captions) ==
    << Line("summaryheader"),
       LineI("summary_french", 0, has_french_subs(captions)),
       Line("summary_audio") >>

\* lines 160-161
ErrorLines == <<Line("error"), Line("trace")>>

\* --------------------------------------------------------------- the state
VARIABLES
    argv,         \* sys.argv
    pc,           \* "main", "check", "await_search", "await_fetch",
                  \* "returned" (check_movie_languages is over), "exited"
    year,         \* the parameter year of check_movie_languages
    exitStatus,   \* process exit status, -1 while running
    out,          \* printed lines
    searchCalls,  \* search.get_content_model() calls issued
    fetchCalls,   \* downloadable.get_content_model() calls issued
    searchState,  \* "idle", "pending", "ok", "raised"
    fetchState,   \* "idle", "pending", "ok", "raised"
    items,        \* results.items: release years in result order
    target,       \* target_movie as an index of items, 0 for None
    fetchArg,     \* item handed to DownloadableMovieFilesDetail, 0 if none
    details       \* the detail result

vars ==
    << argv, pc, year, exitStatus, out, searchCalls, fetchCalls, searchState,
       fetchState, items, target, fetchArg, details >>

NoDetails == [downloads |-> <<>>, captions |-> <<>>]

Init ==
    /\ argv \in Argvs
    /\ pc = "main"
    /\ year = NoneYear
    /\ exitStatus = -1
    /\ out = <<>>
    /\ searchCalls = 0
    /\ fetchCalls = 0
    /\ searchState = "idle"
    /\ fetchState = "idle"
    /\ items = <<>>
    /\ target = 0
    /\ fetchArg = 0
    /\ details = NoDetails

\* ------------------------------------------------------------------ main()
\* lines 167-172: too few arguments, usage and sys.exit(1)
MainUsage ==
    /\ pc = "main"
    /\ Len(argv) < 2
    /\ out' = Append(out, Line("usage"))
    /\ exitStatus' = 1
    /\ pc' = "exited"
    /\ UNCHANGED << argv, year, searchCalls, fetchCalls, searchState,
                    fetchState, items, target, fetchArg, details >>

\* line 175: int() raises ValueError, nothing catches it, the interpreter
\* reports it and exits with status 1
MainBadYear ==
    /\ pc = "main"
    /\ Len(argv) > 2
    /\ ~ParseInt(argv[3]).ok
    /\ out' = Append(out, Line("uncaught"))
    /\ exitStatus' = 1
    /\ pc' = "exited"
    /\ UNCHANGED << argv, year, searchCalls, fetchCalls, searchState,
                    fetchState, items, target, fetchArg, details >>

\* lines 174-177: the coroutine is started with the parsed year or None
MainRun ==
    /\ pc = "main"
    /\ Len(argv) >= 2
    /\ IF Len(argv) > 2
       THEN /\ ParseInt(argv[3]).ok
            /\ year' = IntYear(ParseInt(argv[3]).val)
       ELSE year' = NoneYear
    /\ pc' = "check"
    /\ UNCHANGED << argv, exitStatus, out, searchCalls, fetchCalls,
                    searchState, fetchState, items, target, fetchArg, details >>

MainExitFailure ==
    /\ pc = "returned"
    /\ exitStatus' = IF searchState = "raised" \/ fetchState = "raised"
                     THEN 1 ELSE 0
    /\ pc' = "exited"
    /\ UNCHANGED << argv, year, out, searchCalls, fetchCalls, searchState,
                    fetchState, items, target, fetchArg, details >>

\* line 177: asyncio.run returns, main returns, the process exits with 0
MainExit ==
    /\ pc = "returned"
    /\ exitStatus' = 0
    /\ pc' = "exited"
    /\ UNCHANGED << argv, year, out, searchCalls, fetchCalls, searchState,
                    fetchState, items, target, fetchArg, details >>

\* -------------------------------------------------- check_movie_languages
\* lines 39-52: header, session, the search is issued and awaited
CheckStart ==
    /\ pc = "check"
    /\ out' = out \o HeaderLines(year)
    /\ searchCalls' = searchCalls + 1
    /\ searchState' = "pending"
    /\ pc' = "await_search"
    /\ UNCHANGED << argv, year, exitStatus, fetchCalls, fetchState, items,
                    target, fetchArg, details >>

SearchReturnsEmptyNoReturn ==
    /\ pc = "await_search"
    /\ searchState' = "ok"
    /\ items' = <<>>
    /\ out' = out \o <<Line("noresults"), Line("movieinfo"), Line("fetching")>>
    /\ fetchCalls' = fetchCalls + 1
    /\ fetchState' = "pending"
    /\ pc' = "await_fetch"
    /\ UNCHANGED << argv, year, exitStatus, searchCalls, target, fetchArg,
                    details >>

\* lines 52-56: the search returns no items
SearchReturnsEmpty ==
    /\ pc = "await_search"
    /\ searchState' = "ok"
    /\ items' = <<>>
    /\ out' = Append(out, Line("noresults"))
    /\ pc' = "returned"
    /\ UNCHANGED << argv, year, exitStatus, searchCalls, fetchCalls,
                    fetchState, target, fetchArg, details >>

\* lines 52-84: the search returns items; selection, movie info, and the
\* detail fetch is issued and awaited
SearchReturnsItems ==
    /\ pc = "await_search"
    /\ \E r \in ResultLists :
          /\ r # <<>>
          /\ LET sel == SelectTarget(r, year)
             IN /\ items' = r
                /\ target' = sel.target
                /\ fetchArg' = sel.target
                /\ out' = out
                       \o <<LineI("found", Len(r), FALSE)>>
                       \o (IF sel.warned THEN <<Line("warning")>> ELSE <<>>)
                       \o <<LineI("movieinfo", sel.target, FALSE),
                            Line("fetching")>>
    /\ searchState' = "ok"
    /\ fetchCalls' = fetchCalls + 1
    /\ fetchState' = "pending"
    /\ pc' = "await_fetch"
    /\ UNCHANGED << argv, year, exitStatus, searchCalls, details >>

SearchRaisesNoTrace ==
    /\ pc = "await_search"
    /\ searchState' = "raised"
    /\ out' = Append(out, Line("error"))
    /\ pc' = "returned"
    /\ UNCHANGED << argv, year, exitStatus, searchCalls, fetchCalls,
                    fetchState, items, target, fetchArg, details >>

\* lines 52, 159-162: the search raises
SearchRaises ==
    /\ pc = "await_search"
    /\ searchState' = "raised"
    /\ out' = out \o ErrorLines
    /\ pc' = "returned"
    /\ UNCHANGED << argv, year, exitStatus, searchCalls, fetchCalls,
                    fetchState, items, target, fetchArg, details >>

\* lines 84-157: the detail fetch returns; the four remaining sections
FetchReturns ==
    /\ pc = "await_fetch"
    /\ \E d \in DetailResults :
          /\ details' = d
          /\ out' = out
                 \o VideoSection(d.downloads)
                 \o SubtitleSection(d.captions)
                 \o AudioSection
                 \o SummarySection(d.captions)
    /\ fetchState' = "ok"
    /\ pc' = "returned"
    /\ UNCHANGED << argv, year, exitStatus, searchCalls, fetchCalls,
                    searchState, items, target, fetchArg >>

FetchRaisesRetry ==
    /\ pc = "await_fetch"
    /\ fetchCalls < 2
    /\ fetchState' = "pending"
    /\ fetchCalls' = fetchCalls + 1
    /\ out' = out \o ErrorLines \o <<Line("fetching")>>
    /\ UNCHANGED << argv, pc, year, exitStatus, searchCalls, searchState,
                    items, target, fetchArg, details >>

\* lines 84, 159-162: the detail fetch raises
FetchRaises ==
    /\ pc = "await_fetch"
    /\ fetchState' = "raised"
    /\ out' = out \o ErrorLines
    /\ pc' = "returned"
    /\ UNCHANGED << argv, year, exitStatus, searchCalls, fetchCalls,
                    searchState, items, target, fetchArg, details >>

Next ==
    \/ MainUsage
    \/ MainBadYear
    \/ MainRun
    \/ MainExit
    \/ CheckStart
    \/ SearchReturnsEmpty
    \/ SearchReturnsItems
    \/ SearchRaises
    \/ FetchReturns
    \/ FetchRaises

Spec == Init /\ [][Next]_vars

\* ------------------------------------------------------------- properties
Has(k) == \E n \in DOMAIN out : out[n].k = k
Count(k) == Cardinality({ n \in DOMAIN out : out[n].k = k })
Before(k1, k2) ==
    \E m, n \in DOMAIN out : m < n /\ out[m].k = k1 /\ out[n].k = k2
ReportKinds ==
    { "videoheader", "qualitycount", "variant", "novideo", "subheader",
      "subcount", "caption", "french_yes", "french_no", "nosubs", "audio",
      "summaryheader", "summary_french", "summary_audio" }
SearchGaveItems == searchState = "ok" /\ items # <<>>
YearMatches == \E i \in DOMAIN items : items[i] = year.val
\* two characters that are the same letter, whatever their case
SameLetter(a, b) ==
    \/ a = b
    \/ \E p \in { <<"f", "F">>, <<"r", "R">>, <<"e", "E">>, <<"a", "A">>,
                  <<"n", "N">> } :
          \/ (a = p[1] /\ b = p[2])
          \/ (a = p[2] /\ b = p[1])
EqualsIgnoringCase(s, t) ==
    Len(s) = Len(t) /\ \A i \in DOMAIN s : SameLetter(s[i], t[i])
FrenchIgnoringCase(lan) ==
    \/ EqualsIgnoringCase(lan, <<"f", "r">>)
    \/ EqualsIgnoringCase(lan, <<"f", "r", "e">>)
    \/ EqualsIgnoringCase(lan, <<"f", "r", "a">>)
SummarySaysYes == \E n \in DOMAIN out : out[n] = LineI("summary_french", 0, TRUE)
SummarySaysNo == \E n \in DOMAIN out : out[n] = LineI("summary_french", 0, FALSE)
\* the year arguments int() accepts: digits, optionally after one sign
IntLiterals ==
    { s \in YearArgs :
        \E k \in 1..Len(s) :
           /\ k = Len(s) \/ (k = Len(s) - 1 /\ s[1] = "-")
           /\ \A i \in (Len(s) - k + 1)..Len(s) : s[i] \in Digits }
Over == pc \in {"returned", "exited"}

\* C1: when a year is requested and some item of the non-empty result list
\* has that release year, the earliest such item is the one reported and
\* handed to the detail fetch, and the "using first result instead" warning
\* is not printed.
C1_YearMatchSelected ==
    (SearchGaveItems /\ ~year.isNone /\ YearMatches) =>
        /\ target \in DOMAIN items
        /\ items[target] = year.val
        /\ \A j \in 1..(target - 1) : items[j] # year.val
        /\ fetchArg = target
        /\ \E n \in DOMAIN out : out[n] = LineI("movieinfo", target, FALSE)
        /\ ~Has("warning")

C1_Witness ==
    /\ SearchGaveItems /\ ~year.isNone /\ YearMatches
    /\ target = 2 /\ items[1] # year.val
    /\ fetchState = "ok"

\* C2: for every integer year given by the caller and every non-empty
\* result list with no item of that release year, the first item is
\* selected and the warning is printed before the movie info.
C2_NoMatchWarns ==
    (SearchGaveItems /\ ~year.isNone /\ ~YearMatches) =>
        /\ target = 1
        /\ Before("warning", "movieinfo")

\* C3: when the search returns no items, the "No results found" message is
\* printed, the detail fetch is never issued and no later section is printed.
C3_NoResultsStops ==
    (searchState = "ok" /\ items = <<>>) =>
        /\ Over
        /\ Count("noresults") = 1
        /\ out[Len(out)].k = "noresults"
        /\ fetchCalls = 0 /\ fetchState = "idle" /\ searchCalls = 1
        /\ ~Has("found") /\ ~Has("movieinfo") /\ ~Has("fetching")
        /\ \A k \in ReportKinds : ~Has(k)

C3_Witness == searchState = "ok" /\ items = <<>> /\ pc = "exited"

\* C4: once the detail fetch has returned, the summary says "French
\* Subtitles: YES" exactly when some caption's language code equals fr, fre
\* or fra ignoring case, and NO otherwise.
C4_SummaryFlag ==
    fetchState = "ok" =>
        /\ Count("summary_french") = 1
        /\ SummarySaysYes <=>
               \E i \in DOMAIN details.captions :
                   FrenchIgnoringCase(details.captions[i])
        /\ SummarySaysNo <=> ~SummarySaysYes

C4_Witness ==
    /\ fetchState = "ok"
    /\ SummarySaysYes
    /\ \A i \in DOMAIN details.captions :
           details.captions[i] \notin FRENCH_LANGUAGE_CODES

\* C5 as stated: every failure, the search returning no items included,
\* ends in the handler that prints the error message and the stack trace.
C5_AllFailuresTraced ==
    (Over /\ (searchState = "raised" \/ fetchState = "raised"
                \/ (searchState = "ok" /\ items = <<>>))) =>
        /\ Len(out) >= 2
        /\ out[Len(out) - 1].k = "error"
        /\ out[Len(out)].k = "trace"

\* C5 amended: an exception raised by the search or by the detail fetch is
\* caught by the handler, which prints the error message and the stack trace
\* as the last output of the function; a search that returns no items is
\* not handled there: it prints the no-results message and returns with no
\* error message and no stack trace.
C5_RaisedTracedEmptyNot ==
    /\ (searchState = "raised" \/ fetchState = "raised") =>
          /\ Over
          /\ Len(out) >= 2
          /\ out[Len(out) - 1].k = "error"
          /\ out[Len(out)].k = "trace"
          /\ Count("error") = 1 /\ Count("trace") = 1
          /\ \A k \in ReportKinds : ~Has(k)
    /\ (searchState = "ok" /\ items = <<>>) =>
          /\ Over
          /\ out[Len(out)].k = "noresults"
          /\ ~Has("error") /\ ~Has("trace")
    /\ (~Over \/ (searchState # "raised" /\ fetchState # "raised")) =>
          ~Has("error") /\ ~Has("trace")

C5_Witness == searchState = "raised" /\ Has("trace") /\ pc = "exited"

\* C6 as stated: the exit status is 1 when the title is missing and 0 in
\* every other case, whatever the year argument.
C6_ExitOneOnlyWithoutTitle ==
    pc = "exited" =>
        /\ Len(argv) < 2 => exitStatus = 1
        /\ Len(argv) >= 2 => exitStatus = 0

\* C6 amended: the exit status is 1 when the title is missing or the year
\* argument is not an integer literal, and 0 in every other case, also when
\* the search or the detail fetch raised.
C6_ExitStatus ==
    pc = "exited" =>
        /\ exitStatus \in {0, 1}
        /\ exitStatus = 1 <=>
               \/ Len(argv) < 2
               \/ (Len(argv) > 2 /\ argv[3] \notin IntLiterals)

C6_Witness == pc = "exited" /\ exitStatus = 0 /\ fetchState = "raised"

\* C7: with an empty captions list the report prints "No subtitles
\* available", no caption entry and no French verdict line, and the summary
\* says "French Subtitles: NO".
C7_EmptyCaptions ==
    (fetchState = "ok" /\ details.captions = <<>>) =>
        /\ Count("nosubs") = 1
        /\ ~Has("caption") /\ ~Has("subcount")
        /\ ~Has("french_yes") /\ ~Has("french_no")
        /\ SummarySaysNo /\ ~SummarySaysYes

C7_Witness ==
    fetchState = "ok" /\ details.captions = <<>> /\ details.downloads # <<>>

\* C8: with an empty downloads list the report prints "No video quality
\* options available" and no variant entry, and still goes on to the
\* subtitle section, the audio note and the summary.
C8_EmptyDownloads ==
    (fetchState = "ok" /\ details.downloads = <<>>) =>
        /\ Count("novideo") = 1
        /\ ~Has("variant") /\ ~Has("qualitycount")
        /\ Before("novideo", "subheader")
        /\ Before("subheader", "audio")
        /\ Before("audio", "summary_french")
        /\ out[Len(out)].k = "summary_audio"

C8_Witness ==
    fetchState = "ok" /\ details.downloads = <<>> /\ details.captions # <<>>

\* C9: at most one search and at most one detail fetch are issued, in that
\* order and never again after a failure; the fetch is issued only after
\* the search returned items, an item was selected and its movie info
\* printed; the later sections are printed only after the fetch returned.
C9_CallOrder ==
    /\ searchCalls <= 1 /\ fetchCalls <= 1
    /\ Count("searching") = searchCalls
    /\ Count("fetching") = fetchCalls
    /\ fetchCalls = 1 =>
          /\ searchCalls = 1
          /\ SearchGaveItems
          /\ target \in DOMAIN items /\ fetchArg = target
          /\ Before("searching", "movieinfo")
          /\ Before("movieinfo", "fetching")
    /\ (\E k \in ReportKinds : Has(k)) =>
          /\ fetchState = "ok"
          /\ \A n \in DOMAIN out :
                out[n].k \in ReportKinds =>
                    \E m \in 1..(n - 1) : out[m].k = "fetching"
    /\ searchState = "raised" => fetchCalls = 0 /\ fetchState = "idle"
    /\ (searchState = "raised" \/ fetchState = "raised") => Over

C9_Witness ==
    fetchState = "raised" /\ searchCalls = 1 /\ fetchCalls = 1 /\ pc = "exited"

\* C10: with a non-empty captions list, "French subtitles ARE available!"
\* is printed exactly when the summary says YES (and "NOT found" exactly
\* when it says NO), and the French marker is on exactly the captions whose
\* lower-cased language code is fr, fre or fra.
C10_VerdictAgrees ==
    (fetchState = "ok" /\ details.captions # <<>>) =>
        /\ Has("french_yes") <=> SummarySaysYes
        /\ Has("french_no") <=> SummarySaysNo
        /\ Count("french_yes") + Count("french_no") = 1
        /\ Count("caption") = Len(details.captions)
        /\ \A i \in DOMAIN details.captions :
              \E n \in DOMAIN out :
                 out[n] = LineI("caption", i,
                                Lower(details.captions[i])
                                    \in FRENCH_LANGUAGE_CODES)

C10_Witness ==
    /\ fetchState = "ok"
    /\ Len(details.captions) = 2
    /\ IsFrench(details.captions[1])
    /\ ~IsFrench(details.captions[2])
    /\ Has("french_yes")

====
